---- MODULE Spec2Model ----
(***************************************************************************)
(* Model of three programs of the repository:                              *)
(*   maro/cli/data_pipeline/data_center.py   DataCenterPipeline            *)
(*   examples/citi_bike/ppo/algorithms/fixamt_ppo_att.py   AttGnnPPO       *)
(*   examples/cim/dqn/dist_learner_seed.py   launch                        *)
(* One behaviour runs one of the three programs (variable prog); the       *)
(* state of the other two stays at its initial value.                      *)
(***************************************************************************)
EXTENDS Integers, Sequences, FiniteSets

VARIABLES
    prog,             \* which program this behaviour runs
    \* ---- DataCenterPipeline and its environment
    manifest,         \* lines of the URL text file at the remote source
    downloadFile,     \* os.path.exists(self._download_file)
    vmTable,          \* rows of the vmtable archive at the remote source
    vmTableFile,      \* os.path.exists(self._vm_table_file)
    cleanFile,        \* the file <clean folder>/vmtable.csv
    aria2,            \* the download manager's task list (aria2.get_downloads())
    enqueued,         \* gids of the tasks added by the running/last download()
    num_files,        \* local counter of _aria2p_download
    isForce,          \* is_force of the running/last download()
    pc,               \* position of the pipeline: idle, polling, sleeping
    lastOp,           \* the pipeline method that ran last
    logged,           \* the last message given to the logger
    \* ---- AttGnnPPO
    policy, old_policy, temporal_gnn, old_temporal_gnn,
    epoch_count, itr_count,
    gradPc,           \* position of grad: idle, loop, returned, raised
    k,                \* gradient steps taken by the running/last grad()
    syncCount,        \* load_state_dict syncs done by the running/last grad()
    batch,            \* the rollout given to the running/last grad()
    start,            \* parameters and counters when the running/last grad() began
    \* ---- launch
    launchPc,         \* position of launch
    learnerCreated,   \* DistLearner (and its proxy connections) constructed
    exitCalled        \* learner.exit() has been called

pipelineVars == <<manifest, downloadFile, vmTable, vmTableFile, cleanFile, aria2,
                  enqueued, num_files, isForce, pc, lastOp, logged>>
gradVars == <<policy, old_policy, temporal_gnn, old_temporal_gnn, epoch_count,
              itr_count, gradPc, k, syncCount, batch, start>>
launchVars == <<launchPc, learnerCreated, exitCalled>>
vars == <<prog, pipelineVars, gradVars, launchVars>>

(***************************************************************************)
(* Bounds of the model.                                                    *)
(***************************************************************************)
MaxUrls == 4          \* lines of the URL manifest
MaxRows == 2          \* rows of the vmtable archive
MaxBatch == 1         \* experiences of a rollout
MaxGradCalls == 2     \* completed grad() calls (epoch_count)
ParamMod == 2         \* network parameters are abstracted to 0..ParamMod-1

(***************************************************************************)
(* Sequence helpers.                                                       *)
(***************************************************************************)
Range(s) == {s[i] : i \in DOMAIN s}
SeqsUpTo(S, n) == UNION {[1..m -> S] : m \in 0..n}
Count(s, x) == Cardinality({i \in DOMAIN s : s[i] = x})

(***************************************************************************)
(* URLs.  A URL is the sequence of its '/'-separated segments; a segment   *)
(* is a sequence of text pieces, so that str.startswith can be computed.   *)
(***************************************************************************)
TableUrl == << <<"host">>, <<"v", "m", "table">>, <<"v", "m", "table.csv.gz">> >>
ReadingUrl == << <<"host">>, <<"v", "m", "_cpu_readings">>,
                 <<"v", "m", "_cpu_readings", "-file.csv.gz">> >>
OtherUrl == << <<"host">>, <<"v", "m", "table">>, <<"v", "ersion.txt">> >>
Urls == {TableUrl, ReadingUrl, OtherUrl}

\* remote_url.split('/')[-1]
file_name(remote_url) == remote_url[Len(remote_url)]

\* str.startswith
startswith(name, prefix) ==
    /\ Len(name) >= Len(prefix)
    /\ \A i \in DOMAIN prefix : name[i] = prefix[i]

PrefixVm == <<"v", "m">>
PrefixVmCpuReadings == <<"v", "m", "_cpu_readings">>
vm_table_file_name == <<"v", "m", "table.csv.gz">>

\* the URLs the loop of _aria2p_download hands to aria2.add_uris, in order
AddedUris(urls, is_force, exists) ==
    SelectSeq(urls, LAMBDA u : /\ startswith(file_name(u), PrefixVm)
                               /\ ((~is_force) /\ exists))

NumFilesInit == 4

\* num_files after the loop of _aria2p_download
NumFilesAfter(urls) ==
    NumFilesInit - Cardinality({i \in DOMAIN urls :
                        /\ startswith(file_name(urls[i]), PrefixVm)
                        /\ startswith(file_name(urls[i]), PrefixVmCpuReadings)})

\* the task list after aria2.add_uris was called for each of uris
RECURSIVE add_uris(_, _)
add_uris(tasks, uris) ==
    IF uris = <<>> THEN tasks
    ELSE add_uris(Append(tasks, [gid |-> Len(tasks) + 1, uri |-> Head(uris),
                                 status |-> "active"]),
                  Tail(uris))

\* all([download.is_complete for download in downloads])
AnyComplete(downloads) == \E i \in DOMAIN downloads : downloads[i].status = "complete"
NeverComplete(downloads) == FALSE
AllComplete(downloads) == \A i \in DOMAIN downloads : downloads[i].status = "complete"

Log(level, msg) == [level |-> level, msg |-> msg]

\* the last message the loop of _aria2p_download logs, if it logs one
LastLoopLog(urls, is_force, exists, before) ==
    IF \E i \in DOMAIN urls : startswith(file_name(urls[i]), PrefixVm)
    THEN IF (~is_force) /\ exists
         THEN Log("info", "File already exists, skipping download.")
         ELSE Log("info", "Downloading vmtable from")
    ELSE before

(***************************************************************************)
(* The vmtable.  A cell is a number, a non-numeric text or a missing value *)
(* (NaN); a row of the archive has the eleven columns of headers.          *)
(***************************************************************************)
Num(n) == [t |-> "num", v |-> n]
Text == [t |-> "str", v |-> 0]
NaN == [t |-> "nan", v |-> 0]

headers == {"vmid", "subscriptionid", "deploymentid", "vmcreated", "vmdeleted",
            "maxcpu", "avgcpu", "p95maxcpu", "vmcategory", "vmcorecountbucket",
            "vmmemorybucket"}
required_headers == {"vmid", "vmcreated", "vmdeleted", "vmcorecountbucket",
                     "vmmemorybucket"}

TimeQuantum == 300
Horizon == 43

\* pd.to_numeric(column, errors="coerce")
to_numeric(cell) == IF cell.t = "num" THEN cell ELSE NaN

\* column // n : NaN stays NaN
floordiv(cell, n) == IF cell.t = "num" THEN Num(cell.v \div n) ELSE NaN

\* vm_table.loc[:, required_headers]
loc(row) == [h \in required_headers |-> row[h]]

\* lines 129-135: the four numeric columns coerced, the two timestamps bucketed
coerce(row) ==
    [row EXCEPT !.vmcreated = floordiv(to_numeric(row.vmcreated), TimeQuantum),
                !.vmdeleted = floordiv(to_numeric(row.vmdeleted), TimeQuantum),
                !.vmcorecountbucket = to_numeric(row.vmcorecountbucket),
                !.vmmemorybucket = to_numeric(row.vmmemorybucket)]

\* vm_table.dropna(): a row is kept when none of its columns is NaN
notna(row) == \A h \in DOMAIN row : row[h].t # "nan"

\* vm_table['vmdeleted'] <= 43
WithinHorizonStrict(row) == row.vmdeleted.v < Horizon
WithinHorizon(row) == row.vmdeleted.v <= Horizon

\* vm_table['vmdeleted'] - vm_table['vmcreated']
lifetime(row) == Num(row.vmdeleted.v - row.vmcreated.v)

with_lifetime(row) == [h \in DOMAIN row \cup {"lifetime"} |->
                          IF h = "lifetime" THEN lifetime(row) ELSE row[h]]

MapSeq(s, Op(_)) == [i \in DOMAIN s |-> Op(s[i])]

\* sort_values(by='vmcreated', ascending=True): the sort is not stable, so rows of
\* one creation bucket come out in any order
Permutations(s) ==
    {[i \in DOMAIN s |-> s[f[i]]] :
        f \in {g \in [DOMAIN s -> DOMAIN s] : \A a, b \in DOMAIN s : a # b => g[a] # g[b]}}
AscendingByCreated(s) ==
    \A i, j \in DOMAIN s : i < j => s[i].vmcreated.v <= s[j].vmcreated.v
sort_values(s) == {p \in Permutations(s) : AscendingByCreated(p)}

\* _process_vm_table: the tables it may return for the archive rows tbl
process_vm_table(tbl) ==
    LET projected == MapSeq(tbl, loc)
        coerced == MapSeq(projected, coerce)
        dropped == SelectSeq(coerced, notna)
        kept == SelectSeq(dropped, WithinHorizon)
    IN  sort_values(MapSeq(kept, with_lifetime))

NoFile == [kind |-> "absent", rows |-> <<>>]

\* the rows the model draws archives from
Row(id, created, deleted, cpu, core, mem) ==
    [h \in headers |->
        CASE h = "vmid" -> id
          [] h = "vmcreated" -> created
          [] h = "vmdeleted" -> deleted
          [] h = "maxcpu" -> cpu
          [] h = "vmcorecountbucket" -> core
          [] h = "vmmemorybucket" -> mem
          [] OTHER -> Text]
GoodRows == {Row(Text, Num(c), Num(d), Num(9), Num(2), Num(4)) :
                c \in {300, 900}, d \in {600, 12900, 13200}}
DefectRows == {Row(NaN, Num(900), Num(12900), Num(9), Num(2), Num(4)),
               Row(Text, Text, Num(12900), Num(9), Num(2), Num(4)),
               Row(Text, Num(900), Text, Num(9), Num(2), Num(4)),
               Row(Text, Num(900), Num(12900), NaN, Num(2), Num(4)),
               Row(Text, Num(900), Num(12900), Num(9), Text, Num(4)),
               Row(Text, Num(900), Num(12900), Num(9), Num(2), Text)}
Rows == GoodRows \cup DefectRows
Tables == SeqsUpTo(Rows, MaxRows)
SampleTable == <<Row(Text, Num(900), Num(12900), Num(9), Num(2), Num(4))>>
Manifests == SeqsUpTo(Urls, MaxUrls)

(***************************************************************************)
(* DataCenterPipeline.                                                     *)
(***************************************************************************)
PipelineIdle ==
    /\ cleanFile = NoFile
    /\ aria2 = <<>>
    /\ enqueued = {}
    /\ num_files = NumFilesInit
    /\ isForce = FALSE
    /\ pc = "idle"
    /\ lastOp = "none"
    /\ logged = Log("none", "")

PipelineInit ==
    /\ \/ manifest \in Manifests /\ vmTable = SampleTable
       \/ manifest = <<>> /\ vmTable \in Tables
    /\ downloadFile \in BOOLEAN
    /\ vmTableFile \in BOOLEAN
    /\ PipelineIdle

PipelineOff ==
    /\ manifest = <<>>
    /\ vmTable = <<>>
    /\ downloadFile = FALSE
    /\ vmTableFile = FALSE
    /\ PipelineIdle

\* download(is_force), up to the entry of the polling loop.  The base class
\* download fetches the URL text file; it may fail and leave no file.
Download ==
    /\ prog = "pipeline"
    /\ pc = "idle"
    /\ \E is_force \in BOOLEAN :
         /\ isForce' = is_force
         /\ downloadFile' \in BOOLEAN
         /\ lastOp' = "download"
         /\ IF downloadFile'
            THEN /\ aria2' = add_uris(aria2, AddedUris(manifest, is_force, vmTableFile))
                 /\ enqueued' = {aria2'[i].gid : i \in (DOMAIN aria2') \ (DOMAIN aria2)}
                 /\ num_files' = NumFilesAfter(manifest)
                 /\ logged' = LastLoopLog(manifest, is_force, vmTableFile,
                                  Log("info", "Downloading vmtable and cpu readings."))
                 /\ pc' = "polling"
            ELSE /\ logged' = Log("warning", "Not found downloaded source file")
                 /\ pc' = "idle"
                 /\ UNCHANGED <<aria2, enqueued, num_files>>
    /\ UNCHANGED <<prog, manifest, vmTable, vmTableFile, cleanFile, gradVars, launchVars>>

\* one iteration of the loop of _check_all_download_completed, up to time.sleep
Poll ==
    /\ prog = "pipeline"
    /\ pc = "polling"
    /\ IF Len(aria2) = 0
       THEN /\ logged' = Log("info", "Doesn't exist any pending file.")
            /\ pc' = "idle"
            /\ aria2' = aria2
       ELSE IF AllComplete(aria2)
       THEN /\ aria2' = <<>>
            /\ logged' = Log("info", "Download finished.")
            /\ pc' = "idle"
       ELSE /\ logged' = Log("info", "------")
            /\ pc' = "sleeping"
            /\ aria2' = aria2
    /\ UNCHANGED <<prog, manifest, downloadFile, vmTable, vmTableFile, cleanFile,
                   enqueued, num_files, isForce, lastOp, gradVars, launchVars>>

\* time.sleep(5) returns
Wake ==
    /\ prog = "pipeline"
    /\ pc = "sleeping"
    /\ pc' = "polling"
    /\ UNCHANGED <<prog, manifest, downloadFile, vmTable, vmTableFile, cleanFile, aria2,
                   enqueued, num_files, isForce, lastOp, logged, gradVars, launchVars>>

\* the download manager finishes a task, with success or with an error
TaskProgress ==
    /\ prog = "pipeline"
    /\ \E i \in DOMAIN aria2, s \in {"complete", "error"} :
         /\ aria2[i].status = "active"
         /\ aria2' = [aria2 EXCEPT ![i].status = s]
         /\ vmTableFile' = IF s = "complete" /\ file_name(aria2[i].uri) = vm_table_file_name
                           THEN TRUE ELSE vmTableFile
    /\ UNCHANGED <<prog, manifest, downloadFile, vmTable, cleanFile, enqueued, num_files,
                   isForce, pc, lastOp, logged, gradVars, launchVars>>

\* clean()
CleanUnchecked ==
    /\ prog = "pipeline"
    /\ pc = "idle"
    /\ lastOp' = "clean"
    /\ cleanFile' = [kind |-> "raw", rows |-> IF vmTableFile THEN vmTable ELSE <<>>]
    /\ logged' = Log("info", "Unzip finished.")
    /\ UNCHANGED <<prog, manifest, downloadFile, vmTable, vmTableFile, aria2, enqueued,
                   num_files, isForce, pc, gradVars, launchVars>>
Clean ==
    /\ prog = "pipeline"
    /\ pc = "idle"
    /\ lastOp' = "clean"
    /\ IF vmTableFile
       THEN /\ cleanFile' = [kind |-> "raw", rows |-> vmTable]
            /\ logged' = Log("info", "Unzip finished.")
       ELSE /\ cleanFile' = cleanFile
            /\ logged' = Log("warning", "Not found downloaded source file")
    /\ UNCHANGED <<prog, manifest, downloadFile, vmTable, vmTableFile, aria2, enqueued,
                   num_files, isForce, pc, gradVars, launchVars>>

\* _preprocess(unzip_vm_table_file) on the decompressed archive
Preprocess ==
    /\ prog = "pipeline"
    /\ pc = "idle"
    /\ cleanFile.kind = "raw"
    /\ \E vm_table \in process_vm_table(cleanFile.rows) :
         cleanFile' = [kind |-> "processed", rows |-> vm_table]
    /\ lastOp' = "preprocess"
    /\ UNCHANGED <<prog, manifest, downloadFile, vmTable, vmTableFile, aria2, enqueued,
                   num_files, isForce, pc, logged, gradVars, launchVars>>

(***************************************************************************)
(* AttGnnPPO.                                                              *)
(***************************************************************************)
K_epochs == 4
Params == 0..(ParamMod - 1)

Snapshot == [policy |-> policy, old_policy |-> old_policy,
             temporal_gnn |-> temporal_gnn, old_temporal_gnn |-> old_temporal_gnn,
             epoch_count |-> epoch_count, itr_count |-> itr_count]

GradInit ==
    /\ policy \in Params
    /\ old_policy = policy
    /\ temporal_gnn \in Params
    /\ old_temporal_gnn = temporal_gnn
    /\ epoch_count = 0
    /\ itr_count = 0
    /\ gradPc = "idle"
    /\ k = 0
    /\ syncCount = 0
    /\ batch = [len |-> 0, supplement |-> FALSE]
    /\ start = Snapshot

GradOff ==
    /\ policy = 0
    /\ temporal_gnn = 0
    /\ GradInit

\* batchize_exp(batch): the keys of the dictionary it returns
batchize_exp(b) ==
    IF b.len = 0 THEN {}
    ELSE {"a", "s", "s_", "r", "tot_r", "gamma"}
         \cup (IF b.supplement THEN {"supplement"} ELSE {})

\* the keys grad reads from the batchized rollout before the loop (lines 103-118)
GradReads == {"r", "gamma", "s", "s_", "a", "supplement"}

\* grad(batch), lines 101-120: up to the entry of the loop; a missing key raises
GradCall ==
    /\ prog = "grad"
    /\ gradPc \in {"idle", "returned", "raised"}
    /\ epoch_count < MaxGradCalls
    /\ \E n \in 0..MaxBatch, sup \in BOOLEAN :
         /\ batch' = [len |-> n, supplement |-> sup]
         /\ gradPc' = IF GradReads \subseteq batchize_exp(batch') THEN "loop" ELSE "raised"
    /\ k' = 0
    /\ syncCount' = 0
    /\ start' = Snapshot
    /\ UNCHANGED <<prog, policy, old_policy, temporal_gnn, old_temporal_gnn, epoch_count,
                   itr_count, pipelineVars, launchVars>>

\* optimizer.step(): the parameters move by the step the gradient gives
step(param, g) == (param + g) % ParamMod

\* one iteration of "for _ in range(self.K_epochs)", lines 123-163
GradStep ==
    /\ prog = "grad"
    /\ gradPc = "loop"
    /\ k < K_epochs
    /\ \E g1, g2 \in Params :
         /\ temporal_gnn' = step(temporal_gnn, g1)
         /\ policy' = step(policy, g2)
    /\ itr_count' = itr_count + 1
    /\ k' = k + 1
    /\ UNCHANGED <<prog, old_policy, old_temporal_gnn, epoch_count, gradPc, syncCount,
                   batch, start, pipelineVars, launchVars>>

\* dst.load_state_dict(src.state_dict()): dst's parameters afterwards
load_state_dict_keep(dst, src) == dst
load_state_dict(dst, src) == src

\* lines 165-168, after the loop
GradSync ==
    /\ prog = "grad"
    /\ gradPc = "loop"
    /\ k = K_epochs
    /\ old_policy' = load_state_dict(old_policy, policy)
    /\ old_temporal_gnn' = load_state_dict(old_temporal_gnn, temporal_gnn)
    /\ syncCount' = syncCount + 1
    /\ epoch_count' = epoch_count + 1
    /\ gradPc' = "returned"
    /\ UNCHANGED <<prog, policy, temporal_gnn, itr_count, k, batch, start, pipelineVars,
                   launchVars>>

(***************************************************************************)
(* launch.                                                                 *)
(***************************************************************************)
LaunchInit ==
    /\ launchPc = "start"
    /\ learnerCreated = FALSE
    /\ exitCalled = FALSE

\* lines 18-47: everything up to and including DistLearner(...); any of it may raise
CreateLearner ==
    /\ prog = "launch"
    /\ launchPc = "start"
    /\ \E ok \in BOOLEAN :
         /\ learnerCreated' = ok
         /\ launchPc' = IF ok THEN "created" ELSE "failed"
    /\ UNCHANGED <<prog, exitCalled, pipelineVars, gradVars>>

\* a call of the learner that returns or raises; an exception leaves launch
LearnerCall(at, next) ==
    /\ prog = "launch"
    /\ launchPc = at
    /\ \E ok \in BOOLEAN : launchPc' = IF ok THEN next ELSE "failed"
    /\ UNCHANGED <<prog, learnerCreated, exitCalled, pipelineVars, gradVars>>

\* learner.learn()
Learn == LearnerCall("created", "learned")
\* learner.test()
Test == LearnerCall("learned", "tested")
\* learner.dump_models(...)
DumpModels == LearnerCall("tested", "dumped")

\* learner.exit()
Exit ==
    /\ prog = "launch"
    /\ launchPc = "dumped"
    /\ exitCalled' = TRUE
    /\ launchPc' = "exited"
    /\ UNCHANGED <<prog, learnerCreated, pipelineVars, gradVars>>

(***************************************************************************)
(* Specifications.                                                         *)
(***************************************************************************)
Init ==
    \/ prog = "pipeline" /\ PipelineInit /\ GradOff /\ LaunchInit
    \/ prog = "grad" /\ PipelineOff /\ GradInit /\ LaunchInit
    \/ prog = "launch" /\ PipelineOff /\ GradOff /\ LaunchInit

DownloadNext == Download \/ Poll \/ Wake \/ TaskProgress
PipelineNext == DownloadNext \/ Clean \/ Preprocess

Next ==
    \/ PipelineNext
    \/ GradCall \/ GradStep \/ GradSync
    \/ CreateLearner \/ Learn \/ Test \/ DumpModels \/ Exit

Spec == Init /\ [][Next]_vars

\* The download phase alone.  The polling loop is code of a running single thread: once
\* it can poll or wake it does; the download manager is under no obligation.
DownloadInit ==
    /\ prog = "pipeline"
    /\ PipelineInit
    /\ vmTable = SampleTable
    /\ GradOff
    /\ LaunchInit
FairSpec == DownloadInit /\ [][DownloadNext]_vars /\ WF_vars(Poll) /\ WF_vars(Wake)

(***************************************************************************)
(* Properties.                                                             *)
(***************************************************************************)
InScope(urls) == SelectSeq(urls, LAMBDA u : startswith(file_name(u), PrefixVm))
InLoop == pc \in {"polling", "sleeping"}
SomeIncomplete == \E i \in DOMAIN aria2 : aria2[i].status # "complete"
NewTasks == SubSeq(aria2', Len(aria2) + 1, Len(aria2'))

\* C1: when _aria2p_download runs, it adds exactly one task per manifest URL whose
\* file name starts with "vm" if is_force is set or the local vmtable file does not
\* exist, and adds no task if is_force is false and the file exists.
C1_EnqueuesInScopeUnlessPresent ==
    [][(pc = "idle" /\ pc' = "polling") =>
          MapSeq(NewTasks, LAMBDA t : t.uri)
            = IF isForce' \/ ~vmTableFile THEN InScope(manifest) ELSE <<>>]_vars

\* C2: the polling loop is left only from a state in which every task of the
\* manager's list, and so every task the download phase added, is complete; the
\* tasks are removed from the manager by that step.
C2_LoopExitsOnlyWhenAllComplete ==
    [][(InLoop /\ ~InLoop') =>
          /\ \A g \in enqueued :
                \E i \in DOMAIN aria2 : aria2[i].gid = g /\ aria2[i].status = "complete"
          /\ ~SomeIncomplete
          /\ aria2' = <<>>]_vars

C2_Witness ==
    /\ pc = "idle"
    /\ lastOp = "download"
    /\ Cardinality(enqueued) = 4
    /\ aria2 = <<>>
    /\ logged.msg = "Download finished."

\* C3: while grad runs its K_epochs steps the lagged parameters keep the value they
\* had when the call began and the current parameters have been stepped k times;
\* when grad has returned, after exactly K_epochs steps and exactly one sync, the
\* lagged parameters equal the current ones for both networks.
C3_LaggedSyncedOncePerGrad ==
    /\ gradPc = "loop" =>
          /\ old_policy = start.old_policy
          /\ old_temporal_gnn = start.old_temporal_gnn
          /\ syncCount = 0
          /\ k <= K_epochs
          /\ itr_count = start.itr_count + k
    /\ gradPc = "returned" =>
          /\ batch.len > 0
          /\ old_policy = policy
          /\ old_temporal_gnn = temporal_gnn
          /\ syncCount = 1
          /\ k = K_epochs
          /\ itr_count = start.itr_count + K_epochs
          /\ epoch_count = start.epoch_count + 1

C3_Witness ==
    /\ gradPc = "returned"
    /\ batch.len > 0
    /\ policy # start.policy
    /\ temporal_gnn # start.temporal_gnn
    /\ old_policy = policy
    /\ old_temporal_gnn = temporal_gnn

\* C4: grad on an empty rollout returns normally and leaves the parameters, the
\* lagged parameters and the counters as they were, with no step and no sync.
C4_EmptyRolloutIsNoOp ==
    (gradPc # "idle" /\ batch.len = 0) =>
        /\ gradPc = "returned"
        /\ Snapshot = start
        /\ k = 0
        /\ syncCount = 0

\* C5: whenever launch has ended with the learner created, learner.exit() was called.
C5_ExitCalledOnEveryPath ==
    (launchPc \in {"exited", "failed"} /\ learnerCreated) => exitCalled

\* the rows expected in the cleaned table, in input order
Numeric4(row) ==
    /\ row.vmcreated.t = "num"
    /\ row.vmdeleted.t = "num"
    /\ row.vmcorecountbucket.t = "num"
    /\ row.vmmemorybucket.t = "num"
Retained(row) == Numeric4(row) /\ row.vmdeleted.v \div 300 <= 43
RetainedKeyed(row) == row.vmid.t # "nan" /\ Retained(row)
CleanedRow(row) ==
    [vmid |-> row.vmid,
     vmcreated |-> Num(row.vmcreated.v \div 300),
     vmdeleted |-> Num(row.vmdeleted.v \div 300),
     vmcorecountbucket |-> row.vmcorecountbucket,
     vmmemorybucket |-> row.vmmemorybucket,
     lifetime |-> Num((row.vmdeleted.v \div 300) - (row.vmcreated.v \div 300))]
SameRows(a, b) ==
    /\ Len(a) = Len(b)
    /\ \A x \in Range(a) \cup Range(b) : Count(a, x) = Count(b, x)
BoundaryRow(row) ==
    /\ row.vmcreated = Num(900)
    /\ row.vmdeleted = Num(12900)
    /\ row.vmcorecountbucket.t = "num"
    /\ row.vmmemorybucket.t = "num"
BoundaryCleaned(row) ==
    /\ row.vmcreated = Num(3)
    /\ row.vmdeleted = Num(43)
    /\ row.lifetime = Num(40)

\* C6 as stated: the processed table holds exactly the input rows whose four numeric
\* columns coerce to numbers and whose deletion bucket is at most 43, ascending by
\* creation bucket; the boundary row 900/12900 is present as 3/43/40.
C6_ExactlyNumericRowsWithinHorizon ==
    cleanFile.kind = "processed" =>
        /\ SameRows(cleanFile.rows,
                    MapSeq(SelectSeq(vmTable, Retained), CleanedRow))
        /\ AscendingByCreated(cleanFile.rows)
        /\ (\E i \in DOMAIN vmTable : BoundaryRow(vmTable[i]))
              => \E j \in DOMAIN cleanFile.rows : BoundaryCleaned(cleanFile.rows[j])

\* C6 amended: the processed table holds exactly the input rows whose vmid is not
\* missing, whose four numeric columns coerce to numbers and whose deletion bucket
\* is at most 43, ascending by creation bucket; a row of deletion bucket 44 or of
\* non-numeric vmcorecountbucket is absent and the boundary row 900/12900 with a
\* vmid is present as 3/43/40.
C6_ExactlyKeyedNumericRowsWithinHorizon ==
    cleanFile.kind = "processed" =>
        /\ SameRows(cleanFile.rows,
                    MapSeq(SelectSeq(vmTable, RetainedKeyed), CleanedRow))
        /\ AscendingByCreated(cleanFile.rows)
        /\ \A j \in DOMAIN cleanFile.rows :
              /\ cleanFile.rows[j].vmdeleted.v # 44
              /\ cleanFile.rows[j].vmcorecountbucket.t = "num"
        /\ (\E i \in DOMAIN vmTable :
               BoundaryRow(vmTable[i]) /\ vmTable[i].vmid.t # "nan")
              => \E j \in DOMAIN cleanFile.rows : BoundaryCleaned(cleanFile.rows[j])

C6_Witness ==
    /\ cleanFile.kind = "processed"
    /\ \E i \in DOMAIN vmTable : vmTable[i].vmid.t = "nan" /\ Retained(vmTable[i])
    /\ \E j \in DOMAIN cleanFile.rows : BoundaryCleaned(cleanFile.rows[j])

\* C7: when clean() has returned and the table archive exists, the clean output
\* file holds the processed table, not the raw decompressed archive.
C7_CleanWritesProcessedTable ==
    (lastOp = "clean" /\ vmTableFile) =>
        /\ cleanFile.kind = "processed"
        /\ cleanFile.rows \in process_vm_table(vmTable)

\* C8: every row of the cleaned table has vmdeleted >= vmcreated, that is a
\* lifetime >= 0, whatever the input table.
C8_DeletedNotBeforeCreated ==
    cleanFile.kind = "processed" =>
        \A j \in DOMAIN cleanFile.rows :
            /\ cleanFile.rows[j].vmdeleted.v >= cleanFile.rows[j].vmcreated.v
            /\ cleanFile.rows[j].lifetime.v >= 0

\* C9: download() with no URL manifest file after the base download logs a warning
\* and returns: it adds no task and does not enter the polling loop; clean() with no
\* table archive logs a warning and returns: it leaves the output file as it was.
C9_MissingSourceIsNonFatal ==
    [][/\ (pc = "idle" /\ lastOp' = "download" /\ ~downloadFile') =>
             /\ logged'.level = "warning"
             /\ pc' = "idle"
             /\ aria2' = aria2
             /\ enqueued' = enqueued
       /\ (pc = "idle" /\ lastOp' = "clean" /\ ~vmTableFile) =>
             /\ logged'.level = "warning"
             /\ pc' = "idle"
             /\ cleanFile' = cleanFile]_vars

C9_Witness ==
    /\ lastOp = "clean"
    /\ isForce
    /\ enqueued = {}
    /\ ~vmTableFile
    /\ ~downloadFile
    /\ logged.level = "warning"
    /\ cleanFile = NoFile
    /\ aria2 = <<>>
    /\ pc = "idle"

\* C10: the polling loop ends once the task list is empty or all its tasks are
\* complete; it is left only from such a state, so that with a task that stays
\* incomplete forever it never ends and polls again after every sleep.
C10_PollsUntilComplete ==
    /\ (InLoop /\ ~SomeIncomplete) ~> ~InLoop
    /\ [](pc = "sleeping" => <>(pc = "polling"))
    /\ []((InLoop /\ []SomeIncomplete) => []InLoop)

C10_Witness ==
    /\ pc = "sleeping"
    /\ \E i \in DOMAIN aria2 : aria2[i].status = "error"
    /\ \E i \in DOMAIN aria2 : aria2[i].status = "complete"
====
